---- MODULE Spec2Model ----
(***************************************************************************)
(* httpcore (T-256 fork): the proxy layer of httpcore/_sync/http_proxy.py  *)
(* (HTTPProxy.create_connection, ForwardHTTPConnection and                 *)
(* TunnelHTTPConnection) and the request()/stream() wrappers with their    *)
(* cleanup path of httpcore/_async/interfaces.py.                          *)
(*                                                                         *)
(* Four specifications share the module:                                   *)
(*   Spec         threads calling handle_request on the connections that   *)
(*                an HTTPProxy pool creates (http_proxy.py);               *)
(*   SpecRequest  tasks calling request()/stream() on a pool               *)
(*                (interfaces.py);                                         *)
(*   SpecHeaders  the requests that the connections of a pool with         *)
(*                proxy_auth and proxy_headers send to the proxy;          *)
(*   SpecMerge    merge_headers on lists of headers.                       *)
(* Strings of bytes are sequences of byte values where the code computes   *)
(* with them (header names and values, URLs, the ProxyError message), and  *)
(* TLA+ strings where they are only compared (schemes, methods).           *)
(***************************************************************************)
EXTENDS Integers, Sequences, FiniteSets, TLC

(***************************************************************************)
(* Bounds of the model.                                                    *)
(***************************************************************************)
NumThreads == 2       \* threads calling handle_request concurrently
MaxCalls == 3         \* handle_request calls made in a run, all threads together
NumTasks == 2         \* tasks calling request() or stream() on the pool
MaxPoolConnections == 1   \* max_connections of the pool the tasks use
MaxProxyHeaders == 1  \* entries of the proxy_headers argument (SpecHeaders)
MaxRequestHeaders == 1    \* headers of a caller's request (SpecHeaders)
MaxDefaults == 3      \* entries of merge_headers' default_headers (SpecMerge)
MaxOverrides == 2     \* entries of merge_headers' override_headers (SpecMerge)
MaxChain == 3         \* connection objects a chain of nested connections is made of (SpecCleanup)

Threads == 1..NumThreads
Tasks == 1..NumTasks
Conns == 1..MaxChain

VARIABLES
    proxy_mode,     \* HTTPProxy._proxy_mode
    proxy_headers,  \* HTTPProxy._proxy_headers
    http1,          \* HTTPProxy._http1, handed to every tunnel connection
    http2,          \* HTTPProxy._http2
    connections,    \* the connection create_connection has returned, as a
                    \* list: a run follows one connection of the pool (the
                    \* connections of a pool share no state in http_proxy.py)
    th,             \* per thread: position in handle_request and its locals
    ncalls,         \* handle_request calls made so far
    requests,       \* the pool's request queue, self._requests
    pool_lock,      \* the task holding self._pool_lock (0: free)
    task,           \* per task: position in request()/stream() and its locals
    closed_calls,   \* per request: calls of pool.response_closed(status)
    cleanup_calls,  \* per request: calls of the bound connection's _cleanup
    hq,             \* SpecHeaders: the pool's proxy_auth, the last request
                    \* handed to a connection and the request it sent
    mh,             \* SpecMerge: arguments and results of merge_headers
    cc              \* SpecCleanup: the connection objects, and the position
                    \* and locals of the connection-level _cleanup call

proxyVars == <<proxy_mode, proxy_headers, http1, http2, connections, th, ncalls>>
requestVars == <<requests, pool_lock, task, closed_calls, cleanup_calls>>
headerVars == <<hq, mh>>
cleanupVars == <<cc>>
vars == <<proxyVars, requestVars, headerVars, cleanupVars>>

(***************************************************************************)
(* Data: origins, streams, the wrapped connections.                        *)
(***************************************************************************)
\* httpcore._models.ProxyMode (the enumeration itself is not in src/; the
\* members DEFAULT and FORWARD are named at http_proxy.py:140-141, TUNNEL
\* is the remaining member the docstring at http_proxy.py:112 speaks of).
ProxyModes == {"DEFAULT", "FORWARD", "TUNNEL"}

\* The proxy at http://p:3128 (hosts are bytes: b"p").
ProxyOrigin == [scheme |-> "http", host |-> <<112>>, port |-> 3128]

\* The origins requests are made to: http://s:80 and https://s:443.
RemoteOrigins ==
    { [scheme |-> "http", host |-> <<115>>, port |-> 80],
      [scheme |-> "https", host |-> <<115>>, port |-> 443] }

\* The stream a connection runs on.  "lazy": an HTTPConnection that dials on
\* first use; "tcp": the raw stream of a CONNECT response; "tls": the result
\* of start_tls.
LazyStream == [kind |-> "lazy", alpn |-> "none", ssl_object |-> FALSE]
TcpStream == [kind |-> "tcp", alpn |-> "none", ssl_object |-> FALSE]

\* The protocols a TLS peer may report as selected ("none": no ALPN).
AlpnResults == {"none", "http/1.1", "h2"}

\* Mutant: the upgraded stream has no ssl_object to show.
start_tls_without_ssl_object(selected) ==
    [kind |-> "tls", alpn |-> selected, ssl_object |-> FALSE]

\* NetworkStream.start_tls followed by get_extra_info("ssl_object").
start_tls(selected) == [kind |-> "tls", alpn |-> selected, ssl_object |-> TRUE]

\* HTTPConnection(origin=proxy_origin, ...): http_proxy.py:172-177, 237-242.
HTTPConnection(origin) ==
    [cls |-> "HTTPConnection", origin |-> origin, stream |-> LazyStream,
     closed |-> FALSE]

HTTP11Connection(origin, stream) ==
    [cls |-> "HTTP11Connection", origin |-> origin, stream |-> stream,
     closed |-> FALSE]

HTTP2Connection(origin, stream) ==
    [cls |-> "HTTP2Connection", origin |-> origin, stream |-> stream,
     closed |-> FALSE]

(***************************************************************************)
(* Headers: merge_headers, build_auth_header and the proxy headers of the  *)
(* pool, http_proxy.py:32-53, 129-137.  A header is a pair <<name, value>> *)
(* of byte strings, as in the code.                                        *)
(***************************************************************************)
ProxyAuthorization ==       \* b"Proxy-Authorization"
    <<80, 114, 111, 120, 121, 45, 65, 117, 116, 104, 111, 114, 105, 122, 97,
      116, 105, 111, 110>>
proxy_authorization ==      \* b"proxy-authorization"
    <<112, 114, 111, 120, 121, 45, 97, 117, 116, 104, 111, 114, 105, 122, 97,
      116, 105, 111, 110>>
HostName == <<72, 111, 115, 116>>               \* b"Host"
host_name == <<104, 111, 115, 116>>             \* b"host"
AcceptName == <<65, 99, 99, 101, 112, 116>>     \* b"Accept"

\* Header values a caller may give: b"1", b"2".
HeaderValues == { <<49>>, <<50>> }

\* The lists of at most n headers with names from `names`.
HeaderLists(names, n) ==
    UNION { [1..k -> names \X HeaderValues] : k \in 0..n }

\* bytes.lower(): the ASCII capital letters become small letters.
lower(bytes) ==
    [k \in DOMAIN bytes |->
        IF bytes[k] >= 65 /\ bytes[k] <= 90 THEN bytes[k] + 32 ELSE bytes[k]]

\* Mutant: the names are compared as they are written.
merge_headers_case_sensitive(default_headers, override_headers) ==
    LET has_override ==
            { override_headers[k][1] : k \in DOMAIN override_headers }
    IN  SelectSeq(default_headers, LAMBDA h : h[1] \notin has_override)
            \o override_headers

\* Mutant: no default header is dropped.
merge_headers_without_dedup(default_headers, override_headers) ==
    default_headers \o override_headers

\* merge_headers, http_proxy.py:32-48 (None and [] are the empty list).
merge_headers(default_headers, override_headers) ==
    LET has_override ==
            { lower(override_headers[k][1]) : k \in DOMAIN override_headers }
    IN  SelectSeq(default_headers, LAMBDA h : lower(h[1]) \notin has_override)
            \o override_headers

\* The alphabet of base64: A-Z, a-z, 0-9, "+", "/".
Base64Alphabet ==
    <<65, 66, 67, 68, 69, 70, 71, 72, 73, 74, 75, 76, 77, 78, 79, 80, 81, 82,
      83, 84, 85, 86, 87, 88, 89, 90, 97, 98, 99, 100, 101, 102, 103, 104,
      105, 106, 107, 108, 109, 110, 111, 112, 113, 114, 115, 116, 117, 118,
      119, 120, 121, 122, 48, 49, 50, 51, 52, 53, 54, 55, 56, 57, 43, 47>>

\* base64.b64encode: three bytes give four letters, a last group of one or
\* two bytes is padded with "=".
RECURSIVE b64encode(_)
b64encode(bytes) ==
    IF Len(bytes) = 0 THEN <<>>
    ELSE LET n == IF Len(bytes) >= 3 THEN 3 ELSE Len(bytes)
             v == bytes[1] * 65536
                  + (IF n >= 2 THEN bytes[2] ELSE 0) * 256
                  + (IF n = 3 THEN bytes[3] ELSE 0)
             letter(k) == Base64Alphabet[((v \div (64 ^ (3 - k))) % 64) + 1]
         IN  << letter(0), letter(1),
                IF n >= 2 THEN letter(2) ELSE 61,
                IF n = 3 THEN letter(3) ELSE 61 >>
             \o b64encode(SubSeq(bytes, n + 1, Len(bytes)))

\* build_auth_header, http_proxy.py:51-53.
build_auth_header(username, password) ==
    LET userpass == username \o <<58>> \o password
    IN  <<66, 97, 115, 105, 99, 32>> \o b64encode(userpass)

\* The proxy_auth argument of HTTPProxy: None, or (username, password):
\* (b"u", b"p"), (b"ab", b"c"), (b"ab", b"cd").
NoAuth == [present |-> FALSE, username |-> <<>>, password |-> <<>>]
ProxyAuths ==
    { NoAuth,
      [present |-> TRUE, username |-> <<117>>, password |-> <<112>>],
      [present |-> TRUE, username |-> <<97, 98>>, password |-> <<99>>],
      [present |-> TRUE, username |-> <<97, 98>>, password |-> <<99, 100>>] }

\* Mutant: the Proxy-Authorization header is put after the proxy headers.
init_proxy_headers_auth_last(proxy_auth, headers) ==
    IF proxy_auth.present
    THEN headers \o
         << <<ProxyAuthorization,
              build_auth_header(proxy_auth.username, proxy_auth.password)>> >>
    ELSE headers

\* HTTPProxy.__init__, http_proxy.py:129-137: self._proxy_headers.
init_proxy_headers(proxy_auth, headers) ==
    IF proxy_auth.present
    THEN << <<ProxyAuthorization,
              build_auth_header(proxy_auth.username, proxy_auth.password)>> >>
         \o headers
    ELSE headers

(***************************************************************************)
(* HTTPProxy.create_connection, http_proxy.py:139-159.                     *)
(***************************************************************************)
\* Mutant: the scheme of the origin is not looked at.
create_connection_class_any_scheme(mode, origin) ==
    IF mode = "FORWARD" \/ mode = "DEFAULT"
    THEN "ForwardHTTPConnection"
    ELSE "TunnelHTTPConnection"

\* The class of the connection that create_connection returns.
create_connection_class(mode, origin) ==
    IF mode = "FORWARD" \/ (mode = "DEFAULT" /\ origin.scheme = "http")
    THEN "ForwardHTTPConnection"
    ELSE "TunnelHTTPConnection"

\* ForwardHTTPConnection.__init__, http_proxy.py:163-180.
ForwardHTTPConnection(proxy_origin, headers, remote_origin) ==
    [cls |-> "ForwardHTTPConnection",
     proxy_origin |-> proxy_origin,
     proxy_headers |-> headers,
     remote_origin |-> remote_origin,
     wrapped |-> HTTPConnection(proxy_origin),
     http1 |-> TRUE, http2 |-> FALSE,
     connect_lock |-> 0, connected |-> FALSE]

\* TunnelHTTPConnection.__init__, http_proxy.py:225-251.  connect_lock is
\* the thread holding _connect_lock (0: free).
TunnelHTTPConnection(proxy_origin, headers, remote_origin, h1, h2) ==
    [cls |-> "TunnelHTTPConnection",
     proxy_origin |-> proxy_origin,
     proxy_headers |-> headers,
     remote_origin |-> remote_origin,
     wrapped |-> HTTPConnection(proxy_origin),
     http1 |-> h1, http2 |-> h2,
     connect_lock |-> 0, connected |-> FALSE]

create_connection(mode, headers, h1, h2, origin) ==
    IF create_connection_class(mode, origin) = "ForwardHTTPConnection"
    THEN ForwardHTTPConnection(ProxyOrigin, headers, origin)
    ELSE TunnelHTTPConnection(ProxyOrigin, headers, origin, h1, h2)

\* Mutant: the question is passed on to the wrapped connection, as close(),
\* info() and the other methods are.
can_handle_request_of_wrapped(c, origin) == origin = c.wrapped.origin

\* ForwardHTTPConnection.can_handle_request, http_proxy.py:199-200, and
\* TunnelHTTPConnection.can_handle_request, http_proxy.py:335-336.
can_handle_request(c, origin) == origin = c.remote_origin

(***************************************************************************)
(* Requests, responses and what a call leaves behind.                      *)
(***************************************************************************)
Methods == {"GET", "CONNECT"}

\* The methods of the requests made on a connection.  A tunnel hands the
\* caller's request object on as it is (http_proxy.py:333); a forwarding
\* connection copies the method into a new request (http_proxy.py:191), so
\* it also gets requests whose own method is CONNECT.
CallerMethods(cls) == IF cls = "ForwardHTTPConnection" THEN Methods ELSE {"GET"}

\* URL(scheme, host, port, target); a target is a sequence of its parts.
URL(scheme, host, port, target) ==
    [scheme |-> scheme, host |-> host, port |-> port, target |-> target]

\* request.extensions: the proxy layer reads its "timeout" entry
\* (http_proxy.py:254-255) and hands the mapping on; 0 stands for no entry.
Extensions == { [timeout |-> 0], [timeout |-> 5] }

\* request.stream, the body of a request: b"" or b"hi".
Streams == { <<>>, <<104, 105>> }

\* Request(method, url, headers, content, extensions): http_proxy.py:190-196,
\* 270-275.  headers is a list of [name, value] pairs of bytes.
Request(method, url, headers, content, extensions) ==
    [method |-> method, url |-> url, headers |-> headers, stream |-> content,
     extensions |-> extensions]

NoRequest == Request("none", URL("none", <<>>, 0, <<>>), <<>>, <<>>, [timeout |-> 0])

\* "%d" % n for n >= 0, as the sequence of its ASCII digits.
RECURSIVE Digits(_)
Digits(n) ==
    IF n < 10 THEN <<48 + n>> ELSE Digits(n \div 10) \o <<48 + (n % 10)>>

\* The bytes of a scheme: b"http", b"https".
scheme_bytes(scheme) ==
    IF scheme = "https" THEN <<104, 116, 116, 112, 115>> ELSE <<104, 116, 116, 112>>

\* bytes(request.url): the absolute form of the URL (httpcore._models.URL,
\* not in src/; spec section 4.5: "the absolute form pointing at the remote
\* origin"): scheme "://" host ":" port target.
url_bytes(url) ==
    scheme_bytes(url.scheme) \o <<58, 47, 47>> \o url.host \o <<58>>
        \o Digits(url.port) \o url.target

\* Status codes and reason phrases a proxy may answer a CONNECT with.
StatusCodes == {199, 200, 299, 300, 407}

\* extensions["reason_phrase"] of the CONNECT response: absent, b"No", or
\* b"N\xe9o" (a byte outside ASCII).
ReasonPhrases ==
    { [present |-> FALSE, bytes |-> <<>>],
      [present |-> TRUE, bytes |-> <<78, 111>>],
      [present |-> TRUE, bytes |-> <<78, 233, 111>>] }

NoResponse ==
    [status |-> 0, reason_phrase |-> [present |-> FALSE, bytes |-> <<>>],
     network_stream |-> LazyStream]

\* Exceptions the wrapped connection or the TLS upgrade may raise.
IOErrors == {"ConnectError"}

NoResult == [kind |-> "none", exc |-> "none", msg |-> <<>>]

\* bytes.decode("ascii", errors="ignore"): bytes above 127 are dropped.
decode_ascii_ignore(bytes) == SelectSeq(bytes, LAMBDA b : b < 128)

\* http_proxy.py:281-283: msg = "%d %s" % (status, reason_str).
proxy_error_msg(response) ==
    LET reason_bytes == IF response.reason_phrase.present
                        THEN response.reason_phrase.bytes
                        ELSE <<>>
        reason_str == decode_ascii_ignore(reason_bytes)
    IN  Digits(response.status) \o <<32>> \o reason_str

\* Mutant: only the statuses from 400 on are refused.
connect_refused_from_400(status) == status >= 400

\* Mutant: 300 passes as a success.
connect_refused_above_300(status) == status < 200 \/ status > 300

\* http_proxy.py:280: the CONNECT response is refused.
connect_refused(status) == status < 200 \/ status > 299

\* http_proxy.py:297: the ALPN protocols offered in the TLS upgrade.
alpn_protocols(h2) == IF h2 THEN <<"http/1.1", "h2">> ELSE <<"http/1.1">>

\* http_proxy.py:310-314: whether HTTP/2 was negotiated on the stream.
http2_negotiated_on(stream) == stream.ssl_object /\ stream.alpn = "h2"

\* Mutant: http1 is not looked at.
use_http2_whenever_enabled(negotiated, h1, h2) == negotiated \/ h2

\* http_proxy.py:317: the wrapped connection becomes an HTTP/2 connection.
use_http2(negotiated, h1, h2) == negotiated \/ (h2 /\ ~h1)

\* Mutant: the connection to the proxy is kept.
tunnelled_connection_kept(c, stream, negotiated) == c.wrapped

\* http_proxy.py:316-330: the connection that replaces the proxy connection.
tunnelled_connection(c, stream, negotiated) ==
    IF use_http2(negotiated, c.http1, c.http2)
    THEN HTTP2Connection(c.remote_origin, stream)
    ELSE HTTP11Connection(c.remote_origin, stream)

\* A request handed to a wrapped connection: why, what, and through which
\* connection object (its class and the origin it is bound to).
Sent(purpose, request, via) ==
    [purpose |-> purpose, request |-> request,
     via |-> [cls |-> via.cls, origin |-> via.origin, stream |-> via.stream.kind]]

\* What the caller of handle_request gets: a response, or an exception.
Returned == [NoResult EXCEPT !.kind = "response"]
Raised(exc, msg) == [kind |-> "error", exc |-> exc, msg |-> msg]

InitThread ==
    [pc |-> "idle", conn |-> 0, request |-> NoRequest,
     connect_response |-> NoResponse, stream |-> LazyStream,
     http2_negotiated |-> FALSE, tls_calls |-> <<>>, sent |-> <<>>,
     result |-> NoResult]

(***************************************************************************)
(* httpcore/_async/interfaces.py: request(), stream() and the cleanup of   *)
(* a failed request, on a connection pool.                                 *)
(***************************************************************************)
\* The names bound in the module namespace of interfaces.py: its imports
\* (lines 1-16) and its two classes (lines 19 and 120).
ModuleGlobals ==
    {"sys", "asynccontextmanager", "AsyncIterator", "Optional", "Union",
     "URL", "Extensions", "HeaderTypes", "Origin", "Request", "Response",
     "enforce_bytes", "enforce_headers", "enforce_url",
     "include_request_headers", "AsyncRequestInterface",
     "AsyncConnectionInterface"}

\* The names bound in the frame of request() and of stream(): their
\* parameters and the local variables they assign (lines 44-69, 81-106).
RequestLocals ==
    {"self", "method", "url", "headers", "content", "extensions", "request",
     "response"}

\* The names bound in the frame of AsyncRequestInterface._cleanup (lines
\* 20-28).
CleanupLocals == {"self", "request", "_", "exc", "s", "status"}

\* Python's lookup of a name that is no builtin: the frame, then the module.
\* A name found in neither raises NameError.
name_resolves(name, locals) == name \in (locals \cup ModuleGlobals)

\* A RequestStatus of the pool (spec section 3): the request it belongs to
\* (requests are told apart by the task that made them) and the connection
\* bound to it (0: none).
RequestStatus(request, connection) ==
    [request |-> request, connection |-> connection]

\* interfaces.py:25: the statuses of this request in the queue.
statuses_of(reqs, request) == SelectSeq(reqs, LAMBDA st : st.request = request)

\* interfaces.py:36: self._requests.remove(status).
remove_status(reqs, status) ==
    LET at == {k \in 1..Len(reqs) : reqs[k] = status}
        first == CHOOSE k \in at : \A j \in at : k <= j
    IN  IF at = {} THEN reqs
        ELSE SubSeq(reqs, 1, first - 1) \o SubSeq(reqs, first + 1, Len(reqs))

\* What one run of a cleanup leaves: the queue, the exception it raises
\* ("none": it returns), the calls it made of response_closed and of the
\* connection's _cleanup.
CleanupOutcome(reqs, raised, closed, cleaned) ==
    [requests |-> reqs, raised |-> raised, closed |-> closed, cleaned |-> cleaned]

\* AsyncRequestInterface._cleanup, interfaces.py:20-42, for the exception
\* `exc` being handled ("none": no exception).  response_closed(status) is
\* the pool's (not in src/; spec section 4.4: it removes the status from the
\* queue under the pool lock).
_cleanup(reqs, request, exc) ==
    IF exc = "none"
    THEN CleanupOutcome(reqs, "none", 0, 0)                       \* 22-23
    ELSE LET s == statuses_of(reqs, request)                      \* 25
         IN  IF s = <<>>
             THEN CleanupOutcome(reqs, exc, 0, 0)                 \* 42
             ELSE IF ~name_resolves("AsyncShieldCancellation", CleanupLocals)
             THEN CleanupOutcome(reqs, "NameError", 0, 0)         \* 27
             ELSE LET status == s[Len(s)]                         \* 28
                  IN  IF status.connection = 0
                      THEN CleanupOutcome(remove_status(reqs, status), exc, 0, 0)  \* 33-36, 42
                      ELSE IF exc = "RuntimeError"
                      THEN CleanupOutcome(remove_status(reqs, status), exc, 1, 0)  \* 41, 42
                      ELSE IF ~name_resolves("connection", CleanupLocals)
                      THEN CleanupOutcome(reqs, "NameError", 0, 0)                 \* 40
                      ELSE CleanupOutcome(remove_status(reqs, status), exc, 1, 1)  \* 40-42

\* The exceptions handle_async_request may raise while the request waits
\* for a connection, and once a connection is bound to it.  RuntimeError is
\* the retry signal of interfaces.py:39.
WaitErrors == {"PoolTimeout"}
SendErrors == {"ConnectError", "ReadError", "RuntimeError"}

InitTask ==
    [pc |-> "idle", kind |-> "none", exc |-> "none", handled |-> "none",
     bound |-> FALSE, response |-> "none", cancelled |-> FALSE]

InitRequest ==
    /\ requests = <<>>
    /\ pool_lock = 0
    /\ task = [t \in Tasks |-> InitTask]
    /\ closed_calls = [t \in Tasks |-> 0]
    /\ cleanup_calls = [t \in Tasks |-> 0]

\* What SpecHeaders records: the proxy_auth and proxy_headers arguments of
\* the pool, the last request handed to a connection, and the request that
\* connection handed to its connection to the proxy.
InitHq ==
    [proxy_auth |-> NoAuth, given |-> <<>>, request |-> NoRequest,
     sent |-> NoRequest, via |-> "none"]

\* What SpecMerge records: the arguments of merge_headers, its result, the
\* result of merging the override headers into that result again, and the
\* headers of a forwarded request.
InitMh ==
    [default_headers |-> <<>>, override_headers |-> <<>>, merged |-> <<>>,
     again |-> <<>>, forwarded |-> <<>>, calls |-> 0]

HeadersIdle == hq = InitHq /\ mh = InitMh

\* No connection-level _cleanup has been called.
InitCc ==
    [conns |-> <<>>, given |-> <<>>, exc |-> "none", pc |-> "idle",
     self |-> 0, frames |-> 0, returned |-> "none"]

CleanupIdle == cc = InitCc

\* handle_request is left: its locals are gone, what it sent and what the
\* caller got stay.
Leave(l, pc, sent, tls_calls, result) ==
    [l EXCEPT !.pc = pc, !.sent = sent, !.tls_calls = tls_calls,
              !.result = result, !.connect_response = NoResponse,
              !.stream = LazyStream, !.http2_negotiated = FALSE]

(***************************************************************************)
(* Spec: the proxy pool and the threads that use its connections.          *)
(***************************************************************************)
InitProxy ==
    /\ proxy_mode \in ProxyModes
    /\ proxy_headers = init_proxy_headers(NoAuth, <<>>)
    /\ http1 \in BOOLEAN
    /\ http2 \in BOOLEAN
    /\ connections = <<>>
    /\ th = [t \in Threads |-> InitThread]
    /\ ncalls = 0

\* The pool asks create_connection for a connection to `origin` and keeps
\* it (ConnectionPool, not in src/, appends it to its list of connections).
CreateConnection(origin) ==
    /\ connections = <<>>
    /\ connections' =
           Append(connections,
                  create_connection(proxy_mode, proxy_headers, http1, http2, origin))
    /\ UNCHANGED <<proxy_mode, proxy_headers, http1, http2, th, ncalls, requestVars, headerVars, cleanupVars>>

\* Leaving the `with self._connect_lock` block of connection i, normally or
\* by an exception.
release_lock(conns, i) == [conns EXCEPT ![i].connect_lock = 0]

\* A thread enters handle_request(request) of connection i:
\* http_proxy.py:182 (forward), http_proxy.py:253-255 (tunnel).
Call(t, i, method) ==
    /\ th[t].pc \in {"idle", "returned", "raised"}
    /\ ncalls < MaxCalls
    /\ ncalls' = ncalls + 1
    /\ i \in 1..Len(connections)
    /\ method \in CallerMethods(connections[i].cls)
    /\ LET c == connections[i]
           o == c.remote_origin
       IN  th' = [th EXCEPT ![t] =
                     [InitThread EXCEPT
                        !.pc = IF c.cls = "ForwardHTTPConnection"
                               THEN "forward" ELSE "acquire",
                        !.conn = i,
                        !.request =
                            Request(method, URL(o.scheme, o.host, o.port, <<47, 120>>),
                                    <<>>, <<>>, [timeout |-> 0])]]
    /\ UNCHANGED <<proxy_mode, proxy_headers, http1, http2, connections, requestVars, headerVars, cleanupVars>>

\* Mutant: the body of the request is not handed on.
forward_request_without_content(c, request) ==
    Request(request.method,
            URL(c.proxy_origin.scheme, c.proxy_origin.host, c.proxy_origin.port,
                url_bytes(request.url)),
            merge_headers(c.proxy_headers, request.headers),
            <<>>,
            request.extensions)

\* http_proxy.py:183-196: proxy_request.
forward_request(c, request) ==
    Request(request.method,
            URL(c.proxy_origin.scheme, c.proxy_origin.host, c.proxy_origin.port,
                url_bytes(request.url)),
            merge_headers(c.proxy_headers, request.headers),
            request.stream,
            request.extensions)

\* ForwardHTTPConnection.handle_request, http_proxy.py:182-197: the request
\* is rewritten and handed to the connection to the proxy, which answers or
\* raises.
ForwardHandleRequest(t) ==
    /\ th[t].pc = "forward"
    /\ LET c == connections[th[t].conn]
           sent == Append(th[t].sent,
                          Sent("caller", forward_request(c, th[t].request), c.wrapped))
       IN  \/ th' = [th EXCEPT ![t] =
                        Leave(th[t], "returned", sent, th[t].tls_calls, Returned)]
           \/ \E e \in IOErrors :
                  th' = [th EXCEPT ![t] =
                            Leave(th[t], "raised", sent, th[t].tls_calls,
                                  Raised(e, <<>>))]
    /\ UNCHANGED <<proxy_mode, proxy_headers, http1, http2, connections, ncalls, requestVars, headerVars, cleanupVars>>

\* http_proxy.py:257: `with self._connect_lock:` blocks until the lock is
\* free.
may_acquire(c, t) == c.connect_lock = 0

TunnelAcquireLock(t) ==
    /\ th[t].pc = "acquire"
    /\ may_acquire(connections[th[t].conn], t)
    /\ connections' = [connections EXCEPT ![th[t].conn].connect_lock = t]
    /\ th' = [th EXCEPT ![t].pc = "check"]
    /\ UNCHANGED <<proxy_mode, proxy_headers, http1, http2, ncalls, requestVars, headerVars, cleanupVars>>

\* Mutant: the handshake is done on every call.
needs_handshake_always(c) == TRUE

\* http_proxy.py:258: `if not self._connected:` decides whether this call
\* does the handshake.
needs_handshake(c) == ~c.connected

\* http_proxy.py:258 with the handshake skipped: the `with` block is left.
TunnelCheckConnected(t) ==
    /\ th[t].pc = "check"
    /\ IF needs_handshake(connections[th[t].conn])
       THEN /\ th' = [th EXCEPT ![t].pc = "connect"]
            /\ UNCHANGED connections
       ELSE /\ th' = [th EXCEPT ![t].pc = "delegate"]
            /\ connections' = release_lock(connections, th[t].conn)
    /\ UNCHANGED <<proxy_mode, proxy_headers, http1, http2, ncalls, requestVars, headerVars, cleanupVars>>

\* http_proxy.py:259-275: the CONNECT request made for the caller's
\* `request` (no content is given: the body is empty).
connect_request(c, request) ==
    LET target == c.remote_origin.host \o <<58>> \o Digits(c.remote_origin.port)
    IN  Request("CONNECT",
                URL(c.proxy_origin.scheme, c.proxy_origin.host,
                    c.proxy_origin.port, target),
                merge_headers(<< <<HostName, target>>, <<AcceptName, <<42, 47, 42>> >> >>,
                              c.proxy_headers),
                <<>>,
                request.extensions)

\* http_proxy.py:259-278: the CONNECT request is sent through the wrapped
\* connection, which raises or returns the proxy's response.
TunnelSendConnect(t) ==
    /\ th[t].pc = "connect"
    /\ LET i == th[t].conn
           c == connections[i]
           sent == Append(th[t].sent, Sent("handshake", connect_request(c, th[t].request), c.wrapped))
       IN  \/ \E e \in IOErrors :
                  /\ th' = [th EXCEPT ![t] =
                               Leave(th[t], "raised", sent, th[t].tls_calls,
                                     Raised(e, <<>>))]
                  /\ connections' = release_lock(connections, i)
           \/ \E status \in StatusCodes, reason \in ReasonPhrases :
                  /\ th' = [th EXCEPT ![t].sent = sent, ![t].pc = "status",
                                      ![t].connect_response =
                                          [status |-> status,
                                           reason_phrase |-> reason,
                                           network_stream |-> TcpStream]]
                  /\ UNCHANGED connections
    /\ UNCHANGED <<proxy_mode, proxy_headers, http1, http2, ncalls, requestVars, headerVars, cleanupVars>>

\* http_proxy.py:280-288: a refused CONNECT closes the proxy connection and
\* raises ProxyError; otherwise the raw stream is taken from the response.
TunnelCheckStatus(t) ==
    /\ th[t].pc = "status"
    /\ LET i == th[t].conn
           c == connections[i]
           r == th[t].connect_response
       IN  IF connect_refused(r.status)
           THEN /\ connections' =
                       release_lock([connections EXCEPT ![i].wrapped.closed = TRUE], i)
                /\ th' = [th EXCEPT ![t] =
                             Leave(th[t], "raised", th[t].sent, th[t].tls_calls,
                                   Raised("ProxyError", proxy_error_msg(r)))]
           ELSE /\ th' = [th EXCEPT ![t].stream = r.network_stream,
                                    ![t].http2_negotiated = FALSE,
                                    ![t].pc = IF c.remote_origin.scheme = "https"
                                              THEN "start_tls" ELSE "create"]
                /\ UNCHANGED connections
    /\ UNCHANGED <<proxy_mode, proxy_headers, http1, http2, ncalls, requestVars, headerVars, cleanupVars>>

\* http_proxy.py:290-314: the TLS upgrade of the tunnelled stream, which
\* raises or returns the upgraded stream with the protocol the peer chose.
TunnelStartTLS(t) ==
    /\ th[t].pc = "start_tls"
    /\ LET i == th[t].conn
           c == connections[i]
           offer == [alpn_protocols |-> alpn_protocols(c.http2),
                     server_hostname |-> c.remote_origin.host]
           calls == Append(th[t].tls_calls, offer)
       IN  \/ \E e \in IOErrors :
                  /\ th' = [th EXCEPT ![t] =
                               Leave(th[t], "raised", th[t].sent, calls,
                                     Raised(e, <<>>))]
                  /\ connections' = release_lock(connections, i)
           \/ \E selected \in AlpnResults :
                  /\ th' = [th EXCEPT ![t].tls_calls = calls,
                                      ![t].stream = start_tls(selected),
                                      ![t].http2_negotiated =
                                          http2_negotiated_on(start_tls(selected)),
                                      ![t].pc = "create"]
                  /\ UNCHANGED connections
    /\ UNCHANGED <<proxy_mode, proxy_headers, http1, http2, ncalls, requestVars, headerVars, cleanupVars>>

\* http_proxy.py:316-332: the wrapped connection is replaced by one bound to
\* the remote origin, the tunnel is marked connected, the lock is released.
TunnelCreateConnection(t) ==
    /\ th[t].pc = "create"
    /\ LET i == th[t].conn
           c == connections[i]
       IN  connections' =
               release_lock(
                   [connections EXCEPT
                      ![i].wrapped =
                          tunnelled_connection(c, th[t].stream, th[t].http2_negotiated),
                      ![i].connected = TRUE],
                   i)
    /\ th' = [th EXCEPT ![t].pc = "delegate"]
    /\ UNCHANGED <<proxy_mode, proxy_headers, http1, http2, ncalls, requestVars, headerVars, cleanupVars>>

\* http_proxy.py:333: the caller's request is handed to the wrapped
\* connection, which answers or raises.
TunnelDelegate(t) ==
    /\ th[t].pc = "delegate"
    /\ LET c == connections[th[t].conn]
           sent == Append(th[t].sent, Sent("caller", th[t].request, c.wrapped))
       IN  \/ th' = [th EXCEPT ![t] =
                        Leave(th[t], "returned", sent, th[t].tls_calls, Returned)]
           \/ \E e \in IOErrors :
                  th' = [th EXCEPT ![t] =
                            Leave(th[t], "raised", sent, th[t].tls_calls,
                                  Raised(e, <<>>))]
    /\ UNCHANGED <<proxy_mode, proxy_headers, http1, http2, connections, ncalls, requestVars, headerVars, cleanupVars>>

NextProxy ==
    \/ \E o \in RemoteOrigins : CreateConnection(o)
    \/ \E t \in Threads, i \in 1..Len(connections), m \in Methods : Call(t, i, m)
    \/ \E t \in Threads : ForwardHandleRequest(t)
    \/ \E t \in Threads : TunnelAcquireLock(t)
    \/ \E t \in Threads : TunnelCheckConnected(t)
    \/ \E t \in Threads : TunnelSendConnect(t)
    \/ \E t \in Threads : TunnelCheckStatus(t)
    \/ \E t \in Threads : TunnelStartTLS(t)
    \/ \E t \in Threads : TunnelCreateConnection(t)
    \/ \E t \in Threads : TunnelDelegate(t)

\* The proxy pool as constructed, without proxy_auth and proxy_headers, no
\* task using the request wrappers.
Init == InitProxy /\ InitRequest /\ HeadersIdle /\ CleanupIdle

Spec == Init /\ [][NextProxy]_vars

(***************************************************************************)
(* SpecRequest: tasks calling request() and stream() on a pool.            *)
(* handle_async_request is the pool's (connection_pool.py is not in src/): *)
(* its steps follow spec section 4.4.                                      *)
(***************************************************************************)
\* The proxy layer at rest, with the defaults of http_proxy.py:70-77.
ProxyIdle ==
    /\ proxy_mode = "DEFAULT"
    /\ proxy_headers = init_proxy_headers(NoAuth, <<>>)
    /\ http1 = TRUE
    /\ http2 = FALSE
    /\ connections = <<>>
    /\ th = [t \in Threads |-> InitThread]
    /\ ncalls = 0

\* interfaces.py:44-69: request() builds the Request and awaits
\* handle_async_request.
RequestCall(t) ==
    /\ task[t].pc = "idle"
    /\ task' = [task EXCEPT ![t].pc = "enqueue", ![t].kind = "request"]
    /\ UNCHANGED <<requests, pool_lock, closed_calls, cleanup_calls, proxyVars, headerVars, cleanupVars>>

\* interfaces.py:81-106: stream() does the same.
StreamCall(t) ==
    /\ task[t].pc = "idle"
    /\ task' = [task EXCEPT ![t].pc = "enqueue", ![t].kind = "stream"]
    /\ UNCHANGED <<requests, pool_lock, closed_calls, cleanup_calls, proxyVars, headerVars, cleanupVars>>

\* Spec 4.4 admission step 1: a RequestStatus is appended to the queue.
PoolEnqueue(t) ==
    /\ task[t].pc = "enqueue"
    /\ requests' = Append(requests, RequestStatus(t, 0))
    /\ task' = [task EXCEPT ![t].pc = "acquire"]
    /\ UNCHANGED <<pool_lock, closed_calls, cleanup_calls, proxyVars, headerVars, cleanupVars>>

\* Spec 4.4 admission step 2a: the pool lock is acquired.
PoolAcquireLock(t) ==
    /\ task[t].pc = "acquire"
    /\ pool_lock = 0
    /\ pool_lock' = t
    /\ task' = [task EXCEPT ![t].pc = "assign"]
    /\ UNCHANGED <<requests, closed_calls, cleanup_calls, proxyVars, headerVars, cleanupVars>>

\* The connections in use: those bound to a status of the queue.
BoundStatuses(reqs) == {k \in 1..Len(reqs) : reqs[k].connection # 0}

\* Spec 4.4 admission steps 2b-2e: under the lock a connection is bound to
\* the status if the pool has room for one (the connection is named after
\* the request it is created for); otherwise the request waits for its
\* signal.  The lock is released.
PoolAssign(t) ==
    /\ task[t].pc = "assign"
    /\ pool_lock = t
    /\ IF Cardinality(BoundStatuses(requests)) < MaxPoolConnections
       THEN /\ requests' = [k \in 1..Len(requests) |->
                              IF requests[k] = RequestStatus(t, 0)
                              THEN RequestStatus(t, t) ELSE requests[k]]
            /\ task' = [task EXCEPT ![t].pc = "send"]
       ELSE /\ task' = [task EXCEPT ![t].pc = "wait"]
            /\ UNCHANGED requests
    /\ pool_lock' = 0
    /\ UNCHANGED <<closed_calls, cleanup_calls, proxyVars, headerVars, cleanupVars>>

\* Where handle_async_request is suspended: waiting for the pool lock,
\* waiting for a connection, waiting for the connection's answer.
SuspendedPcs == {"acquire", "wait", "send"}

\* A cancellation of the task is requested while it is suspended; it is
\* raised in the task at a suspension point that no shield covers.
Cancel(t) ==
    /\ task[t].pc \in SuspendedPcs
    /\ ~task[t].cancelled
    /\ task' = [task EXCEPT ![t].cancelled = TRUE]
    /\ UNCHANGED <<requests, pool_lock, closed_calls, cleanup_calls, proxyVars, headerVars, cleanupVars>>

\* The exceptions a suspended handle_async_request may raise.
raisable(l) ==
    (IF l.pc = "send" THEN SendErrors ELSE WaitErrors)
        \cup (IF l.cancelled THEN {"Cancelled"} ELSE {})

\* Whether the request's status has a connection bound.
is_bound(reqs, t) == \E k \in 1..Len(reqs) : reqs[k] = RequestStatus(t, t)

\* interfaces.py:69, 106: handle_async_request raises; the `finally` block
\* is entered with the exception being handled.
HandleRaises(t) ==
    /\ task[t].pc \in SuspendedPcs
    /\ \E e \in raisable(task[t]) :
           task' = [task EXCEPT ![t].pc = "finally", ![t].exc = e,
                                ![t].handled = e,
                                ![t].bound = is_bound(requests, t)]
    /\ UNCHANGED <<requests, pool_lock, closed_calls, cleanup_calls, proxyVars, headerVars, cleanupVars>>

\* interfaces.py:69, 106: handle_async_request returns a response; the
\* `finally` block is entered with no exception.
HandleReturns(t) ==
    /\ task[t].pc = "send"
    /\ task' = [task EXCEPT ![t].pc = "finally", ![t].response = "open",
                            ![t].bound = TRUE]
    /\ UNCHANGED <<requests, pool_lock, closed_calls, cleanup_calls, proxyVars, headerVars, cleanupVars>>

\* The `finally` block of request() and of stream(), and what follows it:
\* interfaces.py:70-78 and 107-114.  `with AsyncShieldCancellation():` looks
\* the name up first; the lookup raises NameError while an exception of
\* handle_async_request, if any, is being handled.  Were the name bound,
\* _cleanup would run and, after it, the response would be read and closed.
finally_block(t) ==
    IF ~name_resolves("AsyncShieldCancellation", RequestLocals)
    THEN /\ task' = [task EXCEPT ![t].pc = "raised", ![t].exc = "NameError"]   \* 71, 108
         /\ UNCHANGED <<requests, pool_lock, closed_calls, cleanup_calls, proxyVars, headerVars, cleanupVars>>
    ELSE LET r == _cleanup(requests, t, task[t].exc)                           \* 72, 109
         IN  /\ requests' = r.requests
             /\ closed_calls' = [closed_calls EXCEPT ![t] = @ + r.closed]
             /\ cleanup_calls' = [cleanup_calls EXCEPT ![t] = @ + r.cleaned]
             /\ task' = IF r.raised # "none"
                        THEN [task EXCEPT ![t].pc = "raised", ![t].exc = r.raised]
                        ELSE [task EXCEPT ![t].pc = "returned",                \* 73-78, 110-114
                                          ![t].response = "closed"]
             /\ UNCHANGED <<pool_lock, proxyVars, headerVars, cleanupVars>>

\* interfaces.py:70-78.
RequestFinally(t) ==
    /\ task[t].pc = "finally"
    /\ task[t].kind = "request"
    /\ finally_block(t)

\* interfaces.py:107-114.
StreamFinally(t) ==
    /\ task[t].pc = "finally"
    /\ task[t].kind = "stream"
    /\ finally_block(t)

NextRequest ==
    \/ \E t \in Tasks : RequestCall(t)
    \/ \E t \in Tasks : StreamCall(t)
    \/ \E t \in Tasks : PoolEnqueue(t)
    \/ \E t \in Tasks : PoolAcquireLock(t)
    \/ \E t \in Tasks : PoolAssign(t)
    \/ \E t \in Tasks : Cancel(t)
    \/ \E t \in Tasks : HandleRaises(t)
    \/ \E t \in Tasks : HandleReturns(t)
    \/ \E t \in Tasks : RequestFinally(t)
    \/ \E t \in Tasks : StreamFinally(t)

\* The pool as constructed, the proxy layer at rest.
InitRequestSpec == ProxyIdle /\ InitRequest /\ HeadersIdle /\ CleanupIdle

SpecRequest == InitRequestSpec /\ [][NextRequest]_vars

(***************************************************************************)
(* SpecHeaders: a pool made with proxy_auth and proxy_headers, the         *)
(* connection it creates, and the request that connection hands to its     *)
(* connection to the proxy for a caller's request.                         *)
(***************************************************************************)
\* Names of the headers given in proxy_headers and on requests.
CallerHeaderNames == {ProxyAuthorization, proxy_authorization, host_name}

\* The URL of the requests made for `origin`: its path is /x.
RequestURL(origin) == URL(origin.scheme, origin.host, origin.port, <<47, 120>>)

\* The requests a caller may make for `origin` on a connection of class cls
\* (the pool hands a connection the requests for the connection's origin).
CallerRequests(cls, origin) ==
    { Request(m, RequestURL(origin), h, b, e) :
        m \in CallerMethods(cls),
        h \in HeaderLists(CallerHeaderNames, MaxRequestHeaders),
        b \in Streams, e \in Extensions }

\* HTTPProxy(proxy_url, proxy_auth=..., proxy_headers=..., proxy_mode=...),
\* http1 and http2 as by default (http_proxy.py:70-71).
InitHeaders ==
    /\ proxy_mode \in ProxyModes
    /\ \E auth \in ProxyAuths,
          headers \in HeaderLists(CallerHeaderNames, MaxProxyHeaders) :
           /\ proxy_headers = init_proxy_headers(auth, headers)
           /\ hq = [InitHq EXCEPT !.proxy_auth = auth, !.given = headers]
    /\ http1 = TRUE
    /\ http2 = FALSE
    /\ connections = <<>>
    /\ th = [t \in Threads |-> InitThread]
    /\ ncalls = 0
    /\ InitRequest
    /\ mh = InitMh
    /\ CleanupIdle

\* ForwardHTTPConnection.handle_request(request), http_proxy.py:182-197:
\* the request handed to self._connection.  A run follows one request: what
\* a connection sends for a request does not depend on the requests before
\* (neither handler writes to the headers or origins of the connection).
HeadersForward ==
    /\ connections # <<>>
    /\ hq.via = "none"
    /\ connections[1].cls = "ForwardHTTPConnection"
    /\ \E request \in CallerRequests(connections[1].cls, connections[1].remote_origin) :
           hq' = [hq EXCEPT !.request = request,
                            !.sent = forward_request(connections[1], request),
                            !.via = "forward"]
    /\ UNCHANGED <<proxyVars, requestVars, mh, cleanupVars>>

\* TunnelHTTPConnection.handle_request(request) on a tunnel that is not
\* connected, http_proxy.py:253-278: the CONNECT request handed to
\* self._connection (the rest of the handshake is in Spec).
HeadersConnect ==
    /\ connections # <<>>
    /\ hq.via = "none"
    /\ connections[1].cls = "TunnelHTTPConnection"
    /\ needs_handshake(connections[1])
    /\ \E request \in CallerRequests(connections[1].cls, connections[1].remote_origin) :
           hq' = [hq EXCEPT !.request = request,
                            !.sent = connect_request(connections[1], request),
                            !.via = "connect"]
    /\ UNCHANGED <<proxyVars, requestVars, mh, cleanupVars>>

NextHeaders ==
    \/ \E o \in RemoteOrigins : CreateConnection(o)
    \/ HeadersForward
    \/ HeadersConnect

SpecHeaders == InitHeaders /\ [][NextHeaders]_vars

(***************************************************************************)
(* SpecMerge: merge_headers applied to lists of headers, and applied again *)
(* to its own result.                                                      *)
(***************************************************************************)
MergeNames == {HostName, host_name, AcceptName}

InitMerge ==
    /\ \E d \in HeaderLists(MergeNames, MaxDefaults),
          o \in HeaderLists(MergeNames, MaxOverrides) :
           mh = [InitMh EXCEPT !.default_headers = d, !.override_headers = o]
    /\ hq = InitHq
    /\ ProxyIdle
    /\ InitRequest
    /\ CleanupIdle

\* merged = merge_headers(default_headers, override_headers)
MergeHeaders ==
    /\ mh.calls = 0
    /\ mh' = [mh EXCEPT !.merged = merge_headers(mh.default_headers,
                                                 mh.override_headers),
                        !.calls = 1]
    /\ UNCHANGED <<proxyVars, requestVars, hq, cleanupVars>>

\* again = merge_headers(merged, override_headers)
MergeAgain ==
    /\ mh.calls = 1
    /\ mh' = [mh EXCEPT !.again = merge_headers(mh.merged, mh.override_headers),
                        !.calls = 2]
    /\ UNCHANGED <<proxyVars, requestVars, hq, cleanupVars>>

\* ForwardHTTPConnection.handle_request, http_proxy.py:183: a forwarding
\* connection whose proxy headers are default_headers forwards a request
\* whose headers are override_headers.
MergeForward ==
    /\ mh.calls = 2
    /\ \E o \in RemoteOrigins :
           LET c == ForwardHTTPConnection(ProxyOrigin, mh.default_headers, o)
               request == Request("GET", URL(o.scheme, o.host, o.port, <<47, 120>>),
                                  mh.override_headers, <<>>, [timeout |-> 0])
           IN  mh' = [mh EXCEPT !.forwarded = forward_request(c, request).headers,
                                !.calls = 3]
    /\ UNCHANGED <<proxyVars, requestVars, hq, cleanupVars>>

NextMerge == MergeHeaders \/ MergeAgain \/ MergeForward

SpecMerge == InitMerge /\ [][NextMerge]_vars

(***************************************************************************)
(* SpecCleanup: AsyncConnectionInterface._cleanup(request, exc) called on  *)
(* the connection bound to a request, over every chain of nested           *)
(* connections.  Each call of the method is a frame; a frame either        *)
(* returns or awaits the same method of its inner connection.              *)
(***************************************************************************)
\* A connection object, as far as _cleanup reads and writes it:
\* has_connection is hasattr(self, "_connection"); _connection is the
\* number of the inner connection object, 0 standing for None;
\* _connect_failed is the flag.  An object without the attribute carries 0.
Connections ==
    [has_connection : BOOLEAN, _connection : 0..MaxChain, _connect_failed : BOOLEAN]

\* The objects 1..MaxChain with their attributes.  An inner connection has a
\* greater number than the connection holding it: the nesting is a finite
\* chain, and every inner object is an AsyncConnectionInterface (the
\* assertion at interfaces.py:186 holds).
ConnectionChains ==
    {h \in [Conns -> Connections] :
        \A k \in Conns :
            /\ h[k]._connection = 0 \/ h[k]._connection > k
            /\ ~h[k].has_connection => h[k]._connection = 0}

\* The exceptions the pool hands to the connection's _cleanup: never a
\* RuntimeError (interfaces.py:39).
CleanupExceptions == (SendErrors \cup WaitErrors \cup {"CancelledError"}) \ {"RuntimeError"}

\* interfaces.py:181.
hasattr_connection(self) == self.has_connection

couldnt_connect_or_connected(self) == TRUE

\* interfaces.py:182: `if self._connection is None`.
couldnt_connect(self) == self._connection = 0

\* The call on the bound connection, object 1, has been made with exc and
\* its frame is about to run.
InitCleanup ==
    /\ \E h \in ConnectionChains, exc \in CleanupExceptions :
           cc = [InitCc EXCEPT !.conns = h, !.given = h, !.exc = exc,
                               !.pc = "frame", !.self = 1, !.frames = 1]
    /\ ProxyIdle
    /\ InitRequest
    /\ HeadersIdle

\* One frame of _cleanup on the connection cc.self, interfaces.py:178-189.
CleanupFrame ==
    /\ cc.pc = "frame"
    /\ LET self == cc.conns[cc.self]
       IN  IF hasattr_connection(self)                                      \* 181
           THEN IF couldnt_connect(self)                                    \* 182
                THEN cc' = [cc EXCEPT !.conns[cc.self]._connect_failed = TRUE,  \* 184
                                      !.returned = cc.exc,                  \* 189
                                      !.pc = "return"]
                ELSE cc' = [cc EXCEPT !.self = self._connection,            \* 187
                                      !.frames = @ + 1]
           ELSE cc' = [cc EXCEPT !.returned = cc.exc, !.pc = "return"]      \* 189
    /\ UNCHANGED <<proxyVars, requestVars, headerVars>>

\* A frame returns: to the frame that awaited it, which returns the same
\* value (interfaces.py:187), or, for the first frame, to the caller.
CleanupReturn ==
    /\ cc.pc = "return"
    /\ cc' = [cc EXCEPT !.frames = @ - 1,
                        !.pc = IF cc.frames = 1 THEN "done" ELSE "return"]
    /\ UNCHANGED <<proxyVars, requestVars, headerVars>>

NextCleanup ==
    \/ CleanupFrame
    \/ CleanupReturn

\* An awaited frame runs on: nothing in _cleanup waits for another task.
SpecCleanup == InitCleanup /\ [][NextCleanup]_vars /\ WF_vars(NextCleanup)

(***************************************************************************)
(* Properties of the proxy layer.                                          *)
(***************************************************************************)
Tunnels == {i \in 1..Len(connections) : connections[i].cls = "TunnelHTTPConnection"}
Forwards == {i \in 1..Len(connections) : connections[i].cls = "ForwardHTTPConnection"}

\* The positions of handle_request between the decision to do the handshake
\* and the end of the `with self._connect_lock` block.
HandshakePcs == {"connect", "status", "start_tls", "create"}

InHandshake(i) == {t \in Threads : th[t].conn = i /\ th[t].pc \in HandshakePcs}

Entries(t, purpose) ==
    {k \in 1..Len(th[t].sent) : th[t].sent[k].purpose = purpose}

\* Thread t hands a CONNECT handshake request to a connection in this step.
SendsHandshake(t) ==
    /\ Len(th'[t].sent) = Len(th[t].sent) + 1
    /\ th'[t].sent[Len(th'[t].sent)].purpose = "handshake"

OneHandshakeAtATime == \A i \in Tunnels : Cardinality(InHandshake(i)) <= 1

HandshakeOnlyOnce ==
    \A i \in Tunnels :
        connections[i].connected =>
            /\ connections'[i].connected
            /\ connections'[i].wrapped = connections[i].wrapped
            /\ \A t \in Threads : th[t].conn = i => ~SendsHandshake(t)

\* C6: on every tunnel connection at most one thread is inside the CONNECT
\* handshake at any moment, and once the tunnel is connected no step sends
\* another CONNECT request through it, replaces its wrapped connection or
\* resets `connected`.
C6_HandshakeSerializedOnce ==
    [] OneHandshakeAtATime /\ [][HandshakeOnlyOnce]_vars

\* C6 witness: two threads have used the same tunnel; one of them did the
\* handshake (CONNECT, then its request), the other found the tunnel
\* connected and sent only its request.
C6_Witness ==
    \E i \in Tunnels : \E t, u \in Threads :
        /\ t # u /\ th[t].conn = i /\ th[u].conn = i
        /\ th[t].pc = "returned" /\ th[u].pc = "returned"
        /\ Len(th[t].sent) = 2 /\ th[t].sent[1].purpose = "handshake"
        /\ Len(th[u].sent) = 1 /\ th[u].sent[1].purpose = "caller"

\* The text "<status> <reason>" of the statuses and reason phrases of the
\* model, written out: "199", "300", "407"; "", "No".
StatusText(status) ==
    CASE status = 199 -> <<49, 57, 57>>
      [] status = 200 -> <<50, 48, 48>>
      [] status = 299 -> <<50, 57, 57>>
      [] status = 300 -> <<51, 48, 48>>
      [] status = 407 -> <<52, 48, 55>>

ReasonText(reason) ==
    IF reason.present /\ reason.bytes # <<>> THEN <<78, 111>> ELSE <<>>

RefusedStep(t) ==
    LET i == th[t].conn
        r == th[t].connect_response
    IN  (th[t].pc = "status" /\ th'[t] # th[t] /\ ~(r.status \in 200..299)) =>
            /\ th'[t].pc = "raised"
            /\ th'[t].result =
                   Raised("ProxyError", StatusText(r.status) \o <<32>> \o ReasonText(r.reason_phrase))
            /\ connections[i].wrapped.origin = ProxyOrigin
            /\ connections'[i].wrapped = [connections[i].wrapped EXCEPT !.closed = TRUE]
            /\ ~connections'[i].connected
            /\ connections'[i].connect_lock = 0
            /\ th'[t].sent = th[t].sent
            /\ Len(th[t].sent) = 1
            /\ th[t].sent[1].purpose = "handshake"
            /\ th[t].sent[1].request.method = "CONNECT"
            /\ th'[t].tls_calls = <<>>

\* C7: when the proxy's answer to the CONNECT request has a status outside
\* 200..299, the step of handle_request that reads it closes the connection
\* to the proxy and raises ProxyError("<status> <reason>"); that call has
\* sent exactly one request, the CONNECT request, has attempted no TLS
\* upgrade and has not sent the caller's request.
C7_RefusedConnect == [][\A t \in Threads : RefusedStep(t)]_vars

\* C7 witness: a call has failed with ProxyError("407 No") and the
\* connection to the proxy is closed.
C7_Witness ==
    \E t \in Threads :
        /\ th[t].pc = "raised"
        /\ th[t].result = Raised("ProxyError", <<52, 48, 55, 32, 78, 111>>)
        /\ connections[th[t].conn].wrapped.closed
        /\ Len(th[t].sent) = 1

\* C8: on a tunnel connection the caller's request is handed only to an
\* HTTP/1.1 or HTTP/2 connection bound to the remote origin on the tunnelled
\* stream, the connection bound to the proxy origin gets CONNECT handshake
\* requests only, and while the tunnel is not connected no caller's request
\* has been sent.
C8_RequestOnlyThroughTunnel ==
    \A t \in Threads :
        th[t].conn \in Tunnels =>
            LET c == connections[th[t].conn]
            IN  /\ \A k \in Entries(t, "caller") :
                       /\ th[t].sent[k].via.origin = c.remote_origin
                       /\ th[t].sent[k].via.cls \in {"HTTP11Connection", "HTTP2Connection"}
                       /\ th[t].sent[k].via.stream \in {"tcp", "tls"}
                       /\ th[t].sent[k].request = th[t].request
                /\ \A k \in 1..Len(th[t].sent) :
                       th[t].sent[k].via.origin = c.proxy_origin =>
                           /\ th[t].sent[k].purpose = "handshake"
                           /\ th[t].sent[k].via.cls = "HTTPConnection"
                /\ ~c.connected => Entries(t, "caller") = {}
                /\ (th[t].pc = "raised" /\ th[t].result.exc = "ProxyError") =>
                       Entries(t, "caller") = {}

\* C8 witness: a call on a tunnel to an https origin has done the handshake
\* and then sent its request over the upgraded stream.
C8_Witness ==
    \E t \in Threads :
        /\ th[t].conn \in Tunnels
        /\ th[t].pc = "returned"
        /\ Len(th[t].sent) = 2
        /\ th[t].sent[1].via.origin = ProxyOrigin
        /\ th[t].sent[2].purpose = "caller"
        /\ th[t].sent[2].via.stream = "tls"

\* h2 was negotiated by ALPN on the stream the connection runs on.
H2Negotiated(stream) == stream.kind = "tls" /\ stream.alpn = "h2"

\* C9: the wrapped connection of a connected tunnel is an HTTP/2 connection
\* if h2 was negotiated by ALPN on its stream or http2 is enabled with http1
\* disabled, and an HTTP/1.1 connection otherwise; for a destination that
\* is not https the stream is not upgraded, so h2 is not negotiated.
C9_ProtocolChoice ==
    \A i \in Tunnels :
        LET c == connections[i]
        IN  c.connected =>
                /\ c.wrapped.cls =
                       IF H2Negotiated(c.wrapped.stream) \/ (c.http2 /\ ~c.http1)
                       THEN "HTTP2Connection" ELSE "HTTP11Connection"
                /\ c.wrapped.origin = c.remote_origin
                /\ c.wrapped.stream.kind =
                       IF c.remote_origin.scheme = "https" THEN "tls" ELSE "tcp"
                /\ c.remote_origin.scheme # "https" => ~H2Negotiated(c.wrapped.stream)

\* C9 witness: with http1 and http2 both enabled the peer chose h2 and the
\* wrapped connection is an HTTP/2 connection.
C9_Witness ==
    \E i \in Tunnels :
        /\ connections[i].connected
        /\ connections[i].http1 /\ connections[i].http2
        /\ connections[i].wrapped.stream.alpn = "h2"
        /\ connections[i].wrapped.cls = "HTTP2Connection"

\* A forwarding connection sends no CONNECT of its own: each call sends at
\* most one request, the caller's, with the caller's method.
ForwardsOnlyTheRequest(i) ==
    \A t \in Threads :
        th[t].conn = i =>
            /\ Entries(t, "handshake") = {}
            /\ Len(th[t].sent) <= 1
            /\ \A k \in 1..Len(th[t].sent) :
                   th[t].sent[k].request.method = th[t].request.method

\* C10 as claimed: for every proxy_mode an https origin is never given a
\* ForwardHTTPConnection, and with proxy_mode DEFAULT an http origin gets a
\* forwarding connection that sends no CONNECT of its own.
C10_Original ==
    \A i \in 1..Len(connections) :
        LET c == connections[i]
        IN  /\ c.remote_origin.scheme = "https" => c.cls = "TunnelHTTPConnection"
            /\ (proxy_mode = "DEFAULT" /\ c.remote_origin.scheme = "http") =>
                   (c.cls = "ForwardHTTPConnection" /\ ForwardsOnlyTheRequest(i))

\* C10 amended: an https origin is given a ForwardHTTPConnection exactly
\* when proxy_mode is FORWARD (otherwise it gets a CONNECT tunnel), and with
\* proxy_mode DEFAULT an http origin gets a forwarding connection that
\* sends no CONNECT of its own.
C10_ForwardOnlyHttpUnlessForwardMode ==
    \A i \in 1..Len(connections) :
        LET c == connections[i]
        IN  /\ c.remote_origin.scheme = "https" =>
                   c.cls = IF proxy_mode = "FORWARD"
                           THEN "ForwardHTTPConnection" ELSE "TunnelHTTPConnection"
            /\ (proxy_mode = "DEFAULT" /\ c.remote_origin.scheme = "http") =>
                   (c.cls = "ForwardHTTPConnection" /\ ForwardsOnlyTheRequest(i))

\* C10 witness: with proxy_mode DEFAULT a request to an http origin went
\* through a forwarding connection.
C10_Witness ==
    \E t \in Threads :
        /\ proxy_mode = "DEFAULT"
        /\ th[t].conn \in Forwards
        /\ connections[th[t].conn].remote_origin.scheme = "http"
        /\ th[t].pc = "returned"
        /\ Len(th[t].sent) = 1

(***************************************************************************)
(* Properties of request() and stream().                                   *)
(***************************************************************************)
\* The call of task t has ended with an exception after handle_async_request
\* raised.
Failed(t) == task[t].pc = "raised" /\ task[t].handled # "none"

\* The queue holds a status of request t with no connection bound.
QueuedUnbound(t) == \E k \in 1..Len(requests) : requests[k] = RequestStatus(t, 0)

\* C1: when handle_async_request has raised while the status of the request
\* had no connection bound, the queue holds no status of that request with
\* connection unset once the call has failed, and the pool lock is free of
\* that task.
C1_UnboundStatusRemoved ==
    \A t \in Tasks :
        (Failed(t) /\ ~task[t].bound) => (~QueuedUnbound(t) /\ pool_lock # t)

\* C2: when handle_async_request has raised after a connection was bound to
\* the status, the bound connection's cleanup has run and response_closed
\* has been called exactly once for the status when the call has failed.
C2_BoundConnectionReleased ==
    \A t \in Tasks :
        (Failed(t) /\ task[t].bound) =>
            (cleanup_calls[t] >= 1 /\ closed_calls[t] = 1)

\* The cleanup of the failed request t has run to completion.
CleanupComplete(t) ==
    IF task[t].bound THEN closed_calls[t] = 1 ELSE ~QueuedUnbound(t)

\* C3: a cancellation delivered to a task does not keep the cleanup of its
\* failed request from running to completion and releasing the pool lock:
\* when the call of a cancelled task has failed, its cleanup is complete and
\* it does not hold the pool lock.
C3_CleanupNotInterrupted ==
    \A t \in Tasks :
        (Failed(t) /\ task[t].cancelled) => (CleanupComplete(t) /\ pool_lock # t)

\* C4: the exception the caller gets is the exception handle_async_request
\* raised, unless that was the retry signal.
C4_ExceptionUnchanged ==
    \A t \in Tasks :
        (Failed(t) /\ task[t].handled # "RuntimeError") =>
            task[t].exc = task[t].handled

\* C5: when a call that obtained a response from handle_async_request has
\* ended, returning or raising, the response has been closed.
C5_ResponseClosed ==
    \A t \in Tasks :
        (task[t].pc \in {"returned", "raised"} /\ task[t].response # "none") =>
            task[t].response = "closed"

(***************************************************************************)
(* Properties of the requests sent to the proxy (SpecHeaders).             *)
(***************************************************************************)
\* The absolute form of the URLs the callers ask for, written out:
\* b"http://s:80/x" and b"https://s:443/x".
AbsoluteForm(url) ==
    IF url.scheme = "https"
    THEN <<104, 116, 116, 112, 115, 58, 47, 47, 115, 58, 52, 52, 51, 47, 120>>
    ELSE <<104, 116, 116, 112, 58, 47, 47, 115, 58, 56, 48, 47, 120>>

\* C11: the request a ForwardHTTPConnection hands to its connection to the
\* proxy is addressed to the proxy origin, has the absolute URL of the
\* caller's request as its target, and has the method, the body and the
\* extensions of the caller's request; the caller's request is as it was
\* made, for the origin the connection was created for.
C11_ForwardRewritesUrlAndHeadersOnly ==
    hq.via = "forward" =>
        /\ hq.sent.url.scheme = ProxyOrigin.scheme
        /\ hq.sent.url.host = ProxyOrigin.host
        /\ hq.sent.url.port = ProxyOrigin.port
        /\ hq.sent.url.target = AbsoluteForm(hq.request.url)
        /\ hq.sent.method = hq.request.method
        /\ hq.sent.stream = hq.request.stream
        /\ hq.sent.extensions = hq.request.extensions
        /\ hq.request.url = RequestURL(connections[1].remote_origin)

\* A request with a body, the method CONNECT, a timeout extension and a
\* header of its own was forwarded for an https origin.
C11_Witness ==
    /\ hq.via = "forward"
    /\ hq.request.method = "CONNECT"
    /\ hq.request.stream # <<>>
    /\ hq.request.extensions.timeout = 5
    /\ hq.request.headers # <<>>
    /\ hq.request.url.scheme = "https"
    /\ hq.sent.stream = hq.request.stream

\* b"Basic " + base64(username + b":" + password) for the credentials of
\* ProxyAuths, written out: "Basic dTpw", "Basic YWI6Yw==", "Basic YWI6Y2Q=".
BasicCredentials(auth) ==
    IF auth.username = <<117>>
    THEN <<66, 97, 115, 105, 99, 32, 100, 84, 112, 119>>
    ELSE IF auth.password = <<99>>
         THEN <<66, 97, 115, 105, 99, 32, 89, 87, 73, 54, 89, 119, 61, 61>>
         ELSE <<66, 97, 115, 105, 99, 32, 89, 87, 73, 54, 89, 50, 81, 61>>

\* The Proxy-Authorization header the pool makes from proxy_auth.
AuthHeader == <<ProxyAuthorization, BasicCredentials(hq.proxy_auth)>>

NamesProxyAuthorization(h) == h[1] \in {ProxyAuthorization, proxy_authorization}

\* The headers of a list that are named Proxy-Authorization, in any case.
AuthHeadersOf(headers) == SelectSeq(headers, NamesProxyAuthorization)

\* C12 as stated: with proxy_auth configured the pool's Proxy-Authorization
\* header is the first proxy header, and every request sent to the proxy
\* (CONNECT or forwarded) carries it, whatever the caller's headers are.
C12_Original ==
    hq.proxy_auth.present =>
        /\ proxy_headers = <<AuthHeader>> \o hq.given
        /\ hq.via # "none" =>
               \E k \in DOMAIN hq.sent.headers : hq.sent.headers[k] = AuthHeader

\* C12 amended: with proxy_auth configured the pool's Proxy-Authorization
\* header is the first proxy header whatever proxy_headers holds; every
\* CONNECT request carries it, before any Proxy-Authorization header of
\* proxy_headers; a forwarded request carries it in the same way unless the
\* caller's request has a header named Proxy-Authorization (in any case),
\* and then carries the request's headers of that name and no other.
C12_AuthHeaderUnlessRequestOverrides ==
    hq.proxy_auth.present =>
        /\ proxy_headers = <<AuthHeader>> \o hq.given
        /\ hq.via = "connect" =>
               AuthHeadersOf(hq.sent.headers)
                   = <<AuthHeader>> \o AuthHeadersOf(hq.given)
        /\ hq.via = "forward" =>
               AuthHeadersOf(hq.sent.headers)
                   = IF AuthHeadersOf(hq.request.headers) = <<>>
                     THEN <<AuthHeader>> \o AuthHeadersOf(hq.given)
                     ELSE AuthHeadersOf(hq.request.headers)

\* A pool with proxy_auth and a Proxy-Authorization entry in proxy_headers
\* forwarded a request that has a proxy-authorization header of its own.
C12_Witness ==
    /\ hq.proxy_auth.present
    /\ hq.proxy_auth.password = <<99>>
    /\ AuthHeadersOf(hq.given) # <<>>
    /\ hq.via = "forward"
    /\ hq.request.headers = << <<proxy_authorization, <<50>> >> >>
    /\ AuthHeadersOf(hq.sent.headers) = hq.request.headers

(***************************************************************************)
(* can_handle_request (Spec).                                              *)
(***************************************************************************)
\* The origins can_handle_request is asked about.
AskedOrigins == RemoteOrigins \cup {ProxyOrigin}

\* Connection c answers true for `origin` and false for every other origin.
HandlesOnly(c, origin) ==
    \A o \in AskedOrigins : can_handle_request(c, o) <=> (o = origin)

\* C13: the connection create_connection(origin) returns answers
\* can_handle_request with true for origin and false for every other origin
\* (the proxy origin among them), and no step of a handle_request call, of a
\* handshake that succeeds or fails, changes an answer.
C13_CanHandleOwnOriginOnly ==
    /\ [][\A o \in RemoteOrigins :
              CreateConnection(o) => HandlesOnly(connections'[Len(connections')], o)]_vars
    /\ [][\A i \in 1..Len(connections) : \A o \in AskedOrigins :
              can_handle_request(connections'[i], o)
                  <=> can_handle_request(connections[i], o)]_vars

\* One call on a tunnel for https://s:443 failed with ProxyError and a later
\* one finished the handshake; the tunnel answers true for its origin only.
C13_Witness ==
    /\ connections # <<>>
    /\ connections[1].cls = "TunnelHTTPConnection"
    /\ connections[1].connected
    /\ \E t \in Threads : th[t].result.exc = "ProxyError"
    /\ HandlesOnly(connections[1], [scheme |-> "https", host |-> <<115>>, port |-> 443])

(***************************************************************************)
(* merge_headers (SpecMerge).                                              *)
(***************************************************************************)
\* Two header names of MergeNames are the same name when case is ignored:
\* b"Host" and b"host" are, b"Accept" is only the same as itself.
SameName(a, b) == a = b \/ {a, b} = {HostName, host_name}

\* The positions of the default headers whose name, case ignored, is the
\* name of no override header.
KeptDefaults ==
    { k \in DOMAIN mh.default_headers :
        \A j \in DOMAIN mh.override_headers :
            ~SameName(mh.default_headers[k][1], mh.override_headers[j][1]) }

\* `headers` is the kept default headers in their order, then the override
\* headers in their order.
KeptThenOverrides(headers) ==
    LET kept == Cardinality(KeptDefaults)
    IN  /\ Len(headers) = kept + Len(mh.override_headers)
        /\ \A k \in KeptDefaults :
               headers[Cardinality({x \in KeptDefaults : x <= k})]
                   = mh.default_headers[k]
        /\ \A j \in DOMAIN mh.override_headers :
               headers[kept + j] = mh.override_headers[j]

\* C14: merge_headers(defaults, overrides) is the default entries whose
\* lowercased name is the lowercased name of no override entry, in their
\* order, followed by all override entries in their order; the headers of a
\* forwarded request are the proxy headers and the request's headers merged
\* in this way, so a proxy header loses to a request header of its name.
C14_MergeResult ==
    /\ mh.calls >= 1 => KeptThenOverrides(mh.merged)
    /\ mh.calls >= 3 => KeptThenOverrides(mh.forwarded)

\* The defaults Host: 1, Accept: 1, host: 2 were merged with the override
\* host: 2: the first and the third default are dropped, Accept: 1 stays
\* and the override follows it.
C14_Witness ==
    /\ mh.calls = 3
    /\ mh.default_headers =
           << <<HostName, <<49>> >>, <<AcceptName, <<49>> >>, <<host_name, <<50>> >> >>
    /\ mh.override_headers = << <<host_name, <<50>> >> >>
    /\ mh.merged = << <<AcceptName, <<49>> >>, <<host_name, <<50>> >> >>
    /\ mh.forwarded = mh.merged

\* C15: merging the override headers into the result of a merge again
\* changes nothing: merge_headers(merge_headers(d, o), o) = merge_headers(d, o).
C15_MergeIdempotent ==
    mh.calls >= 2 => mh.again = mh.merged

\* A merge that dropped a default header and kept another was repeated.
C15_Witness ==
    /\ mh.calls = 2
    /\ Len(mh.default_headers) = 3
    /\ Len(mh.override_headers) = 2
    /\ Cardinality(KeptDefaults) = 1
    /\ mh.again = mh.merged

(***************************************************************************)
(* The connect lock, the TLS upgrade and failed handshakes (Spec).         *)
(***************************************************************************)
\* Thread t takes the connect lock of its connection in this step.
AcquiresLock(t) == th[t].pc = "acquire" /\ th'[t].pc = "check"

\* C16: once a tunnel connection is connected, no handle_request call
\* acquires its connect lock.
C16_LockNotReacquired ==
    [][\A t \in Threads :
           AcquiresLock(t) => ~connections[th[t].conn].connected]_vars

\* The TLS upgrades thread t has asked for in its call.
TlsOffers(t) == { th[t].tls_calls[k] : k \in DOMAIN th[t].tls_calls }

\* C17: a handshake asks for a TLS upgrade exactly when the destination
\* scheme is https (none for http, one before the connection to the remote
\* origin is made for https), offering ["h2", "http/1.1"] in that order when
\* http2 is enabled and ["http/1.1"] otherwise, with the destination host as
\* the server name.
C17_TlsUpgradeOffer ==
    \A t \in Threads :
        th[t].conn # 0 =>
            LET c == connections[th[t].conn]
            IN  /\ c.remote_origin.scheme # "https" => th[t].tls_calls = <<>>
                /\ (c.remote_origin.scheme = "https" /\ th[t].pc = "create")
                       => Len(th[t].tls_calls) = 1
                /\ \A offer \in TlsOffers(t) :
                       /\ offer.alpn_protocols =
                              IF c.http2 THEN <<"h2", "http/1.1">> ELSE <<"http/1.1">>
                       /\ offer.server_hostname = c.remote_origin.host

\* C18: the raw stream of a CONNECT response has no ssl_object, the stream a
\* TLS upgrade returned has one, so after an upgrade HTTP/2 counts as
\* negotiated exactly when the peer selected h2.
C18_SslObjectAfterUpgrade ==
    \A t \in Threads :
        /\ th[t].stream.kind = "tcp" => ~th[t].stream.ssl_object
        /\ th[t].stream.kind = "tls" =>
               /\ th[t].stream.ssl_object
               /\ th[t].http2_negotiated <=> (th[t].stream.alpn = "h2")

\* A thread holds the upgraded stream of a tunnel of a pool with http1 and
\* http2 enabled, on which the peer selected h2.
C18_Witness ==
    \E t \in Threads :
        /\ th[t].pc = "create"
        /\ th[t].stream.kind = "tls"
        /\ th[t].stream.ssl_object
        /\ th[t].stream.alpn = "h2"
        /\ th[t].http2_negotiated
        /\ http1 /\ http2

\* The handshake of thread t ends with an exception in this step.
HandshakeFails(t) ==
    th[t].pc \in {"connect", "status", "start_tls"} /\ th'[t].pc = "raised"

\* Connection c is a tunnel as it was made: not connected, wrapping its
\* connection to the proxy.
NotConnected(c) ==
    /\ ~c.connected
    /\ c.wrapped.cls = "HTTPConnection"
    /\ c.wrapped.origin = ProxyOrigin

\* C19: a handshake that fails (the CONNECT request raises, the proxy
\* answers outside 200..299, the TLS upgrade raises) leaves the tunnel not
\* connected, wrapping its connection to the proxy, with the lock free; an
\* answer outside 200..299 always fails the handshake; and a call that finds
\* the tunnel not connected does the handshake from the CONNECT request on.
C19_FailedHandshakeNotConnected ==
    [][\A t \in Threads :
           LET i == th[t].conn
           IN  /\ HandshakeFails(t) =>
                      /\ NotConnected(connections'[i])
                      /\ connections'[i].connect_lock = 0
               /\ (th[t].pc = "status" /\ th'[t] # th[t]
                     /\ (th[t].connect_response.status < 200
                           \/ th[t].connect_response.status > 299))
                      => HandshakeFails(t)
               /\ (th[t].pc = "check" /\ th'[t] # th[t]
                     /\ ~connections[i].connected)
                      => th'[t].pc = "connect"
               /\ (th[t].pc = "connect" /\ th'[t] # th[t]) =>
                      /\ Len(th'[t].sent) = Len(th[t].sent) + 1
                      /\ th'[t].sent[Len(th'[t].sent)].request.method = "CONNECT"
                      /\ th'[t].sent[Len(th'[t].sent)].via.origin = ProxyOrigin]_vars

\* After a call that the proxy refused, another call has sent CONNECT again
\* on the same tunnel, which is still not connected.
C19_Witness ==
    /\ connections # <<>>
    /\ NotConnected(connections[1])
    /\ connections[1].wrapped.closed
    /\ \E t, u \in Threads :
           /\ th[t].result.exc = "ProxyError"
           /\ th[u].pc = "status"
           /\ th[u].sent # <<>>

(***************************************************************************)
(* The cleanup of a failed request with a bound connection (SpecRequest).  *)
(***************************************************************************)
\* C20: when the call of a request whose status had a connection bound has
\* failed, response_closed(status) has been called once whatever the
\* exception was, and the connection's cleanup has been skipped exactly when
\* the exception was a RuntimeError.
C20_ResponseClosedWhateverException ==
    \A t \in Tasks :
        (Failed(t) /\ task[t].bound) =>
            /\ closed_calls[t] = 1
            /\ (cleanup_calls[t] = 0) <=> (task[t].handled = "RuntimeError")

(***************************************************************************)
(* The cleanup step after a successful handle_async_request (SpecRequest). *)
(***************************************************************************)
\* Task t is at the `finally` block of request() or stream() and
\* handle_async_request has returned its response: no exception is handled.
AtCleanupAfterReturn(t) ==
    /\ task[t].pc = "finally"
    /\ task[t].handled = "none"
    /\ task[t].response = "open"

\* C21: the cleanup step that follows a normal return of
\* handle_async_request raises nothing and changes nothing: the call does
\* not end in an exception, and the request queue, with the status of the
\* request and the connection bound to it, is after the step what it was
\* before it.
C21_CleanupAfterReturnIsNoOp ==
    [][\A t \in Tasks :
          (AtCleanupAfterReturn(t) /\ task'[t] # task[t]) =>
              /\ task'[t].pc # "raised"
              /\ task'[t].exc = "none"
              /\ requests' = requests
              /\ \E k \in 1..Len(requests') :
                     requests'[k] = RequestStatus(t, t)]_vars

(***************************************************************************)
(* Properties of the connection-level cleanup (SpecCleanup).               *)
(***************************************************************************)
\* Connection k of conns holds an inner connection.
HasInner(conns, k) == conns[k].has_connection /\ conns[k]._connection # 0

\* Connection k of conns has the attribute and it is None: never dialed.
InnerUnset(conns, k) == conns[k].has_connection /\ conns[k]._connection = 0

\* The chain of nested connections that starts at connection k.
RECURSIVE ChainFrom(_, _)
ChainFrom(conns, k) ==
    <<k>> \o (IF HasInner(conns, k) THEN ChainFrom(conns, conns[k]._connection)
              ELSE <<>>)

\* The first connection of the chain whose inner connection is unset, as a
\* set: empty when the chain has none.
FirstUnset(conns, chain) ==
    {chain[i] : i \in {j \in 1..Len(chain) :
                          /\ InnerUnset(conns, chain[j])
                          /\ \A l \in 1..(j - 1) : ~InnerUnset(conns, chain[l])}}

\* What the call has done once it has returned to its caller.
CleanupDone ==
    LET chain == ChainFrom(cc.given, 1)
        first == FirstUnset(cc.given, chain)
    IN  /\ Cardinality(first) <= 1
        /\ \A k \in Conns :
               cc.conns[k] = IF k \in first
                             THEN [cc.given[k] EXCEPT !._connect_failed = TRUE]
                             ELSE cc.given[k]
        /\ cc.self = chain[Len(chain)]
        /\ ~HasInner(cc.given, cc.self)
        /\ cc.returned = cc.exc

\* C22: the connection-level cleanup called on the bound connection of a
\* finite chain of nested connections returns to its caller, with no more
\* frames than the chain has connections; when it has returned, the
\* connect-failed flag is set on the first connection of the chain whose
\* inner connection is unset and every other connection is as it was, the
\* descent has stopped at a connection with no inner connection, and the
\* value returned is the exception given.
C22_ConnectionCleanupMarksOnce ==
    /\ [](cc.pc \in {"frame", "return"} =>
              cc.frames <= Len(ChainFrom(cc.given, 1)))
    /\ [](cc.pc = "done" => CleanupDone)
    /\ <>(cc.pc = "done")

\* The call has returned after descending through at least two connections
\* to one that was never dialed and not yet marked; it is marked now, and
\* the bound connection, which was not marked, still is not.
C22_Witness ==
    /\ cc.pc = "done"
    /\ cc.self > 1
    /\ InnerUnset(cc.given, cc.self)
    /\ ~cc.given[cc.self]._connect_failed
    /\ cc.conns[cc.self]._connect_failed
    /\ ~cc.given[1]._connect_failed
    /\ ~cc.conns[1]._connect_failed
    /\ cc.returned = cc.exc
====
